---- MODULE Spec2Model ----
(***************************************************************************)
(* A model of spotifyd's src/utils.rs: absolutize_path, get_config_path,   *)
(* get_hostname / get_username and get_shell.                              *)
(*                                                                         *)
(* Paths and passwd lines are sequences of one-character strings, so that  *)
(* Path::iter and str::split are computed rather than assumed.  A PathBuf   *)
(* is the sequence of its components (PathBuf equality is component-wise);  *)
(* the root component is <<"/">>.  The host environment (HOME, the working  *)
(* directory, the file system, SHELL, the login name, /etc/passwd, the      *)
(* directory-service reply, the host name) is drawn from bounded sets.      *)
(***************************************************************************)
EXTENDS Integers, Sequences, FiniteSets, TLC

VARIABLES
    \* ---- absolutize_path ----
    path,          \* the input path, a string
    home,          \* dirs::home_dir(): None or an absolute PathBuf
    cwd,           \* the working directory: None (cannot be determined) or a PathBuf
    homeLookups,   \* how many times dirs::home_dir() was called
    expanded,      \* path_with_expanded_tilda (NotSet until computed)
    presult,       \* what absolutize_path returned (NotCalled before the call)
    \* ---- get_config_path ----
    bsd,           \* the target is one of the BSDs
    xdgOk,         \* xdg::BaseDirectories::with_prefix succeeds
    xdgKinds,      \* what lies at each XDG candidate, in lookup order
    etcKind,       \* what lies at the system-wide candidate
    cresult,       \* what get_config_path returned (NotCalled before the call)
    \* ---- get_hostname / get_username ----
    hostName,      \* the host's name, a byte string
    loginName,     \* the login name, a byte string
    pc,            \* per thread: "idle", "borrowed" (borrow_mut done), "filled" (native call done)
    call,          \* per thread: the function it is in, "hostname" or "username" ("none" outside)
    ret,           \* per thread: what the native call returned
    buf,           \* per buffer <<thread, which>>: its BufLen bytes
    holder,        \* per buffer: the thread holding its RefCell borrow, 0 for none
    writer,        \* per buffer: the thread whose native call wrote it under the current borrow, 0 for none
    hresult,       \* per thread: what its last call returned
    \* ---- get_shell ----
    macos,         \* the target is macOS
    shellEnv,      \* the SHELL variable: [set, val]
    spc,           \* where get_shell is: "start", "username", "open", "scan", "dscl", "done"
    username,      \* what get_username returned to get_shell (NotSet before)
    passwd,        \* /etc/passwd as File::open found it (NotSet before)
    lineNo,        \* the line the scan reads next
    dscl,          \* what running dscl gave (NotSet before)
    queries,       \* the sources consulted so far, in order
    sresult        \* what get_shell returned (NotCalled before it returns)

pathVars == <<path, home, cwd, homeLookups, expanded, presult>>
cfgVars  == <<bsd, xdgOk, xdgKinds, etcKind, cresult>>
hostVars == <<hostName, loginName, pc, call, ret, buf, holder, writer, hresult>>
shVars   == <<macos, shellEnv, spc, username, passwd, lineNo, dscl, queries, sresult>>
vars     == <<pathVars, cfgVars, hostVars, shVars>>

None      == [kind |-> "None"]
NotCalled == [kind |-> "NotCalled"]
NotSet    == [kind |-> "NotSet"]
Some(v)   == [kind |-> "Some", val |-> v]
Ok(v)     == [kind |-> "Ok", val |-> v]
Err(e)    == [kind |-> "Err", err |-> e]

(***************************************************************************)
(* Bounds                                                                  *)
(***************************************************************************)
MaxLen == 6        \* longest input path, in characters
NThreads == 2      \* threads calling get_hostname / get_username
MaxSharedDirs == 2 \* most entries of XDG_CONFIG_DIRS
MaxLines == 2      \* most lines of /etc/passwd

(***************************************************************************)
(* Strings                                                                 *)
(***************************************************************************)
Strings(alphabet, n) == UNION {[1..k -> alphabet] : k \in 0..n}

\* str::split / the separator scan of Path::components: the pieces of s
\* between occurrences of sep, empty pieces included; never empty.
RECURSIVE SplitFrom(_, _, _, _)
SplitFrom(s, sep, i, cur) ==
    IF i > Len(s) THEN <<cur>>
    ELSE IF s[i] = sep THEN <<cur>> \o SplitFrom(s, sep, i + 1, <<>>)
    ELSE SplitFrom(s, sep, i + 1, Append(cur, s[i]))

Split(s, sep) == SplitFrom(s, sep, 1, <<>>)

(***************************************************************************)
(* get_hostname / get_username                                             *)
(***************************************************************************)
BufLen == 255      \* [libc::c_char; 255]

NUL         == "NUL"        \* the byte 0
BadByte     == "#FF"        \* a byte that is not valid UTF-8
Replacement == "U+FFFD"     \* the replacement character, three bytes of UTF-8

Threads == 1..NThreads
Which   == {"hostname", "username"}
Bufs    == Threads \X Which

\* Byte strings and buffers are written as runs: <<[b |-> "b", n |-> 3]>> is
\* the three bytes "bbb".  No run is empty and neighbouring runs differ, so
\* equal byte strings are equal values.
Run(b, n) == [b |-> b, n |-> n]
Rep(b, n) == IF n = 0 THEN <<>> ELSE <<Run(b, n)>>
ZeroBuf == Rep(NUL, BufLen)

RECURSIVE RLen(_)
RLen(r) == IF r = <<>> THEN 0 ELSE Head(r).n + RLen(Tail(r))

\* The first k bytes of r, and what follows them.
RECURSIVE Take(_, _)
Take(r, k) ==
    IF k <= 0 \/ r = <<>> THEN <<>>
    ELSE IF Head(r).n <= k THEN <<Head(r)>> \o Take(Tail(r), k - Head(r).n)
    ELSE <<Run(Head(r).b, k)>>

RECURSIVE Drop(_, _)
Drop(r, k) ==
    IF k <= 0 \/ r = <<>> THEN r
    ELSE IF Head(r).n <= k THEN Drop(Tail(r), k - Head(r).n)
    ELSE <<Run(Head(r).b, Head(r).n - k)>> \o Tail(r)

\* Concatenation, joining the runs that meet.
Cat(r1, r2) ==
    IF r1 = <<>> THEN r2
    ELSE IF r2 = <<>> THEN r1
    ELSE IF r1[Len(r1)].b = r2[1].b
         THEN SubSeq(r1, 1, Len(r1) - 1)
              \o <<Run(r2[1].b, r1[Len(r1)].n + r2[1].n)>> \o Tail(r2)
         ELSE r1 \o r2

\* The bytes of a run string, one by one (for short strings).
RECURSIVE Expand(_)
Expand(r) == IF r = <<>> THEN <<>> ELSE [i \in 1..Head(r).n |-> Head(r).b] \o Expand(Tail(r))

\* Faulty variant: one process-wide buffer per function instead of one per thread
SharedBufOf(t, w) == <<1, w>>

\* thread_local!: each thread has its own BUF_HOSTNAME and BUF_USERNAME.
BufOf(t, w) == <<t, w>>

\* The buffer after the native call copied `bytes` to its start.
Overwrite(old, bytes) == Cat(bytes, Drop(old, RLen(bytes)))

\* gethostname(buf, 255) / getlogin_r(buf, 255) for a name `name`: every
\* [ret, buf] the call can leave.  The call may fail.  A name that fits is
\* copied with its terminator.  A name that does not fit is, depending on
\* the C library, refused (ret # 0) after filling the buffer, truncated
\* with a terminator, or truncated without one (POSIX leaves the terminator
\* unspecified).
NativeOutcomes(name, old) ==
    IF RLen(name) < BufLen
    THEN {[ret |-> -1, buf |-> old],
          [ret |-> 0, buf |-> Overwrite(old, Cat(name, Rep(NUL, 1)))]}
    ELSE {[ret |-> -1, buf |-> Overwrite(old, Take(name, BufLen))],
          [ret |-> 0, buf |-> Overwrite(old, Cat(Take(name, BufLen - 1), Rep(NUL, 1)))],
          [ret |-> 0, buf |-> Overwrite(old, Take(name, BufLen))]}

HasNul(r) == \E i \in 1..Len(r) : r[i].b = NUL
FirstNul(r) == CHOOSE i \in 1..Len(r) : r[i].b = NUL /\ \A j \in 1..(i - 1) : r[j].b # NUL

\* What may follow the buffer in memory when the read runs past its end.
OverrunTails == {<<>>, Rep("?", 1)}

\* CStr::from_ptr(buf.as_ptr()): the bytes before the first NUL.  Without a
\* NUL in the buffer the read runs past its end (undefined behaviour).
CStrFromPtr(r) ==
    IF HasNul(r) THEN {SubSeq(r, 1, FirstNul(r) - 1)}
    ELSE {Cat(r, tail) : tail \in OverrunTails}

\* to_string_lossy(): an invalid byte becomes the replacement character.
ToStringLossy(r) ==
    [i \in 1..Len(r) |-> Run(IF r[i].b = BadByte THEN Replacement ELSE r[i].b, r[i].n)]

\* String::len(): the length in bytes of the UTF-8 encoding.
RECURSIVE ByteLen(_)
ByteLen(str) ==
    IF str = <<>> THEN 0
    ELSE Head(str).n * (IF Head(str).b = Replacement THEN 3 ELSE 1) + ByteLen(Tail(str))

NameOf(w) == IF w = "hostname" THEN hostName ELSE loginName

\* BUF.with(|refcell| { let mut buf = refcell.borrow_mut(); ...
Borrow(t, w) ==
    /\ pc[t] = "idle"
    /\ call' = [call EXCEPT ![t] = w]
    /\ hresult' = [hresult EXCEPT ![t] = NotCalled]
    /\ ret' = [ret EXCEPT ![t] = 0]
    /\ IF holder[BufOf(t, w)] # 0
       THEN /\ pc' = [pc EXCEPT ![t] = "panicked"]     \* BorrowMutError
            /\ UNCHANGED holder
       ELSE /\ pc' = [pc EXCEPT ![t] = "borrowed"]
            /\ holder' = [holder EXCEPT ![BufOf(t, w)] = t]
    /\ UNCHANGED <<hostName, loginName, buf, writer, pathVars, cfgVars, shVars>>

\* let ret = unsafe { libc::gethostname(buf.as_mut_ptr(), buf.len()) };
Native(t) ==
    /\ pc[t] = "borrowed"
    /\ \E o \in NativeOutcomes(NameOf(call[t]), buf[BufOf(t, call[t])]) :
          /\ ret' = [ret EXCEPT ![t] = o.ret]
          /\ buf' = [buf EXCEPT ![BufOf(t, call[t])] = o.buf]
    /\ writer' = [writer EXCEPT ![BufOf(t, call[t])] = t]
    /\ pc' = [pc EXCEPT ![t] = "filled"]
    /\ UNCHANGED <<hostName, loginName, call, holder, hresult, pathVars, cfgVars, shVars>>

\* if ret != 0 { return None; }
ReturnNone(t) ==
    /\ pc[t] = "filled"
    /\ ret[t] # 0
    /\ hresult' = [hresult EXCEPT ![t] = None]
    /\ holder' = [holder EXCEPT ![BufOf(t, call[t])] = 0]
    /\ pc' = [pc EXCEPT ![t] = "idle"]
    /\ call' = [call EXCEPT ![t] = "none"]
    /\ writer' = [writer EXCEPT ![BufOf(t, call[t])] = 0]
    /\ UNCHANGED <<hostName, loginName, ret, buf, pathVars, cfgVars, shVars>>

\* Some(CStr::from_ptr(buf.as_ptr()).to_string_lossy().to_string())
ReturnSome(t) ==
    /\ pc[t] = "filled"
    /\ ret[t] = 0
    /\ \E bytes \in CStrFromPtr(buf[BufOf(t, call[t])]) :
          hresult' = [hresult EXCEPT ![t] = Some(ToStringLossy(bytes))]
    /\ holder' = [holder EXCEPT ![BufOf(t, call[t])] = 0]
    /\ pc' = [pc EXCEPT ![t] = "idle"]
    /\ call' = [call EXCEPT ![t] = "none"]
    /\ writer' = [writer EXCEPT ![BufOf(t, call[t])] = 0]
    /\ UNCHANGED <<hostName, loginName, ret, buf, pathVars, cfgVars, shVars>>

(***************************************************************************)
(* std::path                                                               *)
(***************************************************************************)
RootDir   == <<"/">>
CurDir    == <<".">>
ParentDir == <<".", ".">>
Tilde     == <<"~">>

HasRoot(s) == Len(s) > 0 /\ s[1] = "/"

\* Path::iter(): a leading separator is the root component; repeated and
\* trailing separators vanish; "." vanishes except as the first component of
\* a path without root.
Components(s) ==
    LET pieces == SelectSeq(Split(s, "/"), LAMBDA p : p # <<>>)
        NotCurDir(p) == p # CurDir
    IN  IF HasRoot(s) THEN <<RootDir>> \o SelectSeq(pieces, NotCurDir)
        ELSE IF pieces # <<>> /\ pieces[1] = CurDir
             THEN <<CurDir>> \o SelectSeq(Tail(pieces), NotCurDir)
             ELSE SelectSeq(pieces, NotCurDir)

IsAbsolute(p) == Len(p) > 0 /\ p[1] = RootDir

\* PathBuf::join: an absolute right-hand side replaces the path.
Join(p, c) == IF c = RootDir THEN <<c>> ELSE Append(p, c)

RECURSIVE JoinAll(_, _)
JoinAll(p, cs) == IF cs = <<>> THEN p ELSE JoinAll(Join(p, Head(cs)), Tail(cs))

(***************************************************************************)
(* path_absolutize::Absolutize                                             *)
(***************************************************************************)
\* Lexical resolution: "." is dropped, ".." drops the component before it
\* (nothing above the root), anything else is kept.
RECURSIVE ParseDotFrom(_, _)
ParseDotFrom(acc, cs) ==
    IF cs = <<>> THEN acc
    ELSE LET c == Head(cs) IN
         IF c = CurDir THEN ParseDotFrom(acc, Tail(cs))
         ELSE IF c = ParentDir
              THEN ParseDotFrom(IF Len(acc) > 1 THEN SubSeq(acc, 1, Len(acc) - 1) ELSE acc,
                                Tail(cs))
              ELSE ParseDotFrom(Append(acc, c), Tail(cs))

\* Faulty variant: ".." is dropped without removing the component before it
RECURSIVE ParseDotKeepFrom(_, _)
ParseDotKeepFrom(acc, cs) ==
    IF cs = <<>> THEN acc
    ELSE LET c == Head(cs) IN
         IF c = CurDir \/ c = ParentDir THEN ParseDotKeepFrom(acc, Tail(cs))
         ELSE ParseDotKeepFrom(Append(acc, c), Tail(cs))

ParseDotNoPop(p) == ParseDotKeepFrom(<<RootDir>>, Tail(p))

ParseDot(p) == ParseDotFrom(<<RootDir>>, Tail(p))

\* absolutize(): an absolute path is resolved as it stands, a relative one
\* after the working directory; the io::Result is the caller's result.
Absolutize(p, wd) ==
    IF IsAbsolute(p) THEN Ok(ParseDot(p))
    ELSE IF wd = None THEN Err("CurrentDir")
    ELSE Ok(ParseDot(wd.val \o p))

(***************************************************************************)
(* absolutize_path                                                         *)
(***************************************************************************)
\* Faulty variant: the first component merely starts with '~'
FirstStartsWithTilde(comps) == comps[1][1] = "~"

FirstIsTilde(comps) == comps[1] = Tilde

\* Faulty variant: an unresolvable home directory leaves the path unexpanded
ExpandTildaLenient(s, hm) ==
    LET comps == Components(s) IN
    IF comps = <<>>
    THEN [lookups |-> 0, expanded |-> NotSet, err |-> "InvalidInput"]
    ELSE IF FirstIsTilde(comps) /\ hm # None
         THEN [lookups |-> 1, expanded |-> Some(JoinAll(hm.val, Tail(comps))),
               err |-> "none"]
         ELSE [lookups |-> IF FirstIsTilde(comps) THEN 1 ELSE 0,
               expanded |-> Some(comps), err |-> "none"]

\* The three exits of the block that computes path_with_expanded_tilda:
\* [lookups, expanded, err].
ExpandTilda(s, hm) ==
    LET comps == Components(s) IN
    IF comps = <<>>
    THEN [lookups |-> 0, expanded |-> NotSet, err |-> "InvalidInput"]
    ELSE IF FirstIsTilde(comps)
         THEN IF hm = None
              THEN [lookups |-> 1, expanded |-> NotSet, err |-> "NotFound"]
              ELSE [lookups |-> 1, expanded |-> Some(JoinAll(hm.val, Tail(comps))),
                    err |-> "none"]
         ELSE [lookups |-> 0, expanded |-> Some(comps), err |-> "none"]

\* absolutize_path(path): what it looked up, the expanded path, the result.
absolutize_path(s, hm, wd) ==
    LET e == ExpandTilda(s, hm) IN
    [lookups  |-> e.lookups,
     expanded |-> e.expanded,
     result   |-> IF e.err # "none" THEN Err(e.err)
                  ELSE Absolutize(e.expanded.val, wd)]

AbsolutizePath ==
    /\ presult = NotCalled
    /\ LET r == absolutize_path(path, home, cwd) IN
       /\ homeLookups' = r.lookups
       /\ expanded' = r.expanded
       /\ presult' = r.result
    /\ UNCHANGED <<path, home, cwd, cfgVars, hostVars, shVars>>


(***************************************************************************)
(* Claims about absolutize_path (checked under SpecPath)                   *)
(***************************************************************************)
Str(a, b, c, d, e, f) == SelectSeq(<<a, b, c, d, e, f>>, LAMBDA x : x # "")

\* On the raw string: the path is "~" or begins with "~/".
LeadingTilde(s) == Len(s) > 0 /\ s[1] = "~" /\ (Len(s) = 1 \/ s[2] = "/")

\* The names that follow the leading "~" in the raw string, in order.
NamesAfterTilde(s) ==
    SelectSeq(Split(SubSeq(s, 2, Len(s)), "/"), LAMBDA p : p # <<>> /\ p # CurDir)

PathCalled == presult # NotCalled

\* C1: the home directory is looked up and substituted if and only if the
\* first component of the input is exactly "~"; then the expanded path is
\* the home directory followed by the remaining components in order.  For
\* every other non-empty input (a later "~", or "~" starting a longer name)
\* home is never looked up and the components go to absolutize() as given.
C1_TildeOnlyAsFirstComponent ==
    (PathCalled /\ path # <<>>) =>
        IF LeadingTilde(path)
        THEN /\ homeLookups = 1
             /\ home # None =>
                   /\ expanded = Some(home.val \o NamesAfterTilde(path))
                   /\ presult = Absolutize(expanded.val, cwd)
        ELSE /\ homeLookups = 0
             /\ expanded = Some(Components(path))
             /\ presult = Absolutize(Components(path), cwd)

C1_Witness ==
    /\ path = Str("~", "/", "f", "/", "f", "")
    /\ home = Some(<<RootDir, <<"h">>, <<"u">>>>)
    /\ homeLookups = 1
    /\ presult = Ok(<<RootDir, <<"h">>, <<"u">>, <<"f">>, <<"f">>>>)

IsPlainName(c) == c # RootDir /\ c # CurDir /\ c # ParentDir

\* C2: a successful result is absolute and has no "." or ".." component; a
\* relative path is resolved after the working directory; appending a name
\* and ".." changes nothing (the name need not exist); "~" gives the home
\* directory, "~/f" the home directory joined with f, "~/f/.." the home
\* directory.  (The home directory is absolute and free of dots.)
C2_LexicalAbsolute ==
    (PathCalled /\ presult.kind = "Ok") =>
        /\ IsAbsolute(presult.val)
        /\ \A i \in 1..Len(presult.val) : presult.val[i] # CurDir /\ presult.val[i] # ParentDir
        /\ (~IsAbsolute(expanded.val) /\ \A i \in 1..Len(expanded.val) : IsPlainName(expanded.val[i]))
              => presult.val = cwd.val \o expanded.val
        /\ absolutize_path(path \o Str("/", "f", "/", ".", ".", ""), home, cwd).result = presult
        /\ path = Str("~", "", "", "", "", "") => presult.val = home.val
        /\ path = Str("~", "/", "f", "", "", "") => presult.val = Append(home.val, <<"f">>)
        /\ path = Str("~", "/", "f", "/", ".", ".") => presult.val = home.val

C2_Witness ==
    /\ path = Str("~", "/", "f", "/", ".", ".")
    /\ home = Some(<<RootDir, <<"h">>, <<"u">>>>)
    /\ presult = Ok(<<RootDir, <<"h">>, <<"u">>>>)

Kinds == {"missing", "file", "dir", "special"}

\* fs::metadata(p).is_ok(): the test find_config_file applies.
PathExists(kind) == kind # "missing"

\* fs::metadata(p) is Ok and meta.is_file().
IsRegularFile(kind) == kind = "file"

\* The candidate paths.  XdgPath(1) is <config home>/spotifyd/spotifyd.conf,
\* XdgPath(i + 1) is <i-th entry of XDG_CONFIG_DIRS>/spotifyd/spotifyd.conf.
XdgPath(i) == [loc |-> "xdg", idx |-> i]
EtcPath(isBsd) ==
    [loc |-> IF isBsd THEN "/usr/local/etc/spotifyd.conf" ELSE "/etc/spotifyd.conf",
     idx |-> 0]

\* BaseDirectories::find_config_file: the first candidate that exists.
RECURSIVE FindConfigFileFrom(_, _)
FindConfigFileFrom(kinds, i) ==
    IF i > Len(kinds) THEN None
    ELSE IF PathExists(kinds[i]) THEN Some(XdgPath(i))
    ELSE FindConfigFileFrom(kinds, i + 1)

find_config_file(kinds) == FindConfigFileFrom(kinds, 1)

get_config_path(isBsd, baseOk, kinds, etc) ==
    LET found == IF baseOk THEN find_config_file(kinds) ELSE None IN
    IF found # None THEN found
    ELSE IF IsRegularFile(etc) THEN Some(EtcPath(isBsd))
    ELSE None

GetConfigPath ==
    /\ cresult = NotCalled
    /\ cresult' = get_config_path(bsd, xdgOk, xdgKinds, etcKind)
    /\ UNCHANGED <<bsd, xdgOk, xdgKinds, etcKind, pathVars, hostVars, shVars>>


(***************************************************************************)
(* Claims about get_config_path (checked under SpecConfig)                 *)
(***************************************************************************)
\* What lies at a returned path.
KindAt(p) == IF p.loc = "xdg" THEN xdgKinds[p.idx] ELSE etcKind

\* A candidate qualifies when it exists and is a regular file.  The
\* user-scoped candidate is the file under an XDG configuration directory.
UserQualifies == xdgOk /\ \E i \in 1..Len(xdgKinds) : xdgKinds[i] = "file"
EtcQualifies  == etcKind = "file"

\* C7: the user-scoped candidate is returned whenever it qualifies, whatever
\* lies at the system-wide path; the system-wide path is returned only when
\* the user-scoped candidate does not qualify; when neither qualifies the
\* result is None.
C7_PriorityOrder ==
    cresult # NotCalled =>
        /\ UserQualifies => (cresult # None /\ cresult.val.loc = "xdg")
        /\ cresult = Some(EtcPath(bsd)) => (~UserQualifies /\ EtcQualifies)
        /\ (~UserQualifies /\ ~EtcQualifies) => cresult = None

\* C8: every returned path, from either location, named a regular file when
\* it was checked.
C8_ReturnedIsRegularFile ==
    (cresult # NotCalled /\ cresult # None) => KindAt(cresult.val) = "file"

(***************************************************************************)
(* Claims about get_hostname / get_username (checked under SpecHost)       *)
(***************************************************************************)
\* C9: a call returns None when the native call fails, and otherwise a
\* string of at most 254 bytes, however long the host's name is.
C9_AtMost254Bytes ==
    \A t \in Threads :
        /\ (pc[t] = "idle" /\ hresult[t] # NotCalled /\ ret[t] # 0) => hresult[t] = None
        /\ hresult[t].kind = "Some" => ByteLen(hresult[t].val) <= BufLen - 1

InCall(t) == pc[t] \in {"borrowed", "filled"}

\* C10: under any interleaving no buffer is in use by two calls at once;
\* each call borrows the buffer of its own thread and function, holds it
\* from the native call until the string is decoded, and decodes bytes that
\* its own native call wrote.
C10_BuffersPerThread ==
    /\ \A t, u \in Threads :
          (t # u /\ InCall(t) /\ InCall(u)) => BufOf(t, call[t]) # BufOf(u, call[u])
    /\ \A b \in Bufs :
          holder[b] # 0 => (b = <<holder[b], call[holder[b]]>> /\ InCall(holder[b]))
    /\ \A t \in Threads :
          /\ InCall(t) => holder[<<t, call[t]>>] = t
          /\ pc[t] = "filled" => writer[<<t, call[t]>>] = t
          /\ pc[t] # "panicked"
    /\ \A b \in Bufs : writer[b] \in {0, b[1]}

C10_Witness ==
    /\ pc[1] = "filled" /\ pc[2] = "filled"
    /\ call[1] = "hostname" /\ call[2] = "hostname"
    /\ ret[1] = 0 /\ ret[2] = 0
    /\ buf[<<1, "hostname">>][1].b = "b" /\ buf[<<2, "hostname">>][1].b = "b"

(***************************************************************************)
(* get_shell                                                               *)
(***************************************************************************)
\* env::var: Err when the variable is not set or is not valid Unicode.
EnvVar(v) ==
    IF ~v.set THEN Err("NotPresent")
    ELSE IF \E i \in 1..Len(v.val) : v.val[i] = BadByte THEN Err("NotUnicode")
    ELSE Ok(v.val)

\* get_username() on thread t: every [value, buf] it can end with.
get_username(t, name, bufs) ==
    LET outs == NativeOutcomes(name, bufs[BufOf(t, "username")]) IN
    UNION {IF o.ret # 0
           THEN {[value |-> None, buf |-> o.buf]}
           ELSE {[value |-> Some(ToStringLossy(bytes)), buf |-> o.buf] :
                     bytes \in CStrFromPtr(o.buf)} : o \in outs}

\* BufRead::lines(): a line that is not valid UTF-8 is an Err.
ReadLine(l) ==
    IF \E i \in 1..Len(l) : l[i] = BadByte THEN Err("InvalidData") ELSE Ok(l)

\* Faulty variant: the name matches when the field starts with it
UserStartsWith(user, name) ==
    Len(user) >= Len(name) /\ SubSeq(user, 1, Len(name)) = name

\* user == username
UserMatches(user, name) == user = name

\* Faulty variant: a line of another user ends the scan
ScanLineStopping(l, name) ==
    LET line == ReadLine(l) IN
    IF line.kind = "Err" THEN [return |-> TRUE, value |-> None]
    ELSE LET fields == Split(line.val, ":") IN
         IF UserMatches(fields[1], name)
         THEN [return |-> TRUE,
               value |-> IF Len(fields) >= 7 THEN Some(fields[7]) ELSE None]
         ELSE [return |-> TRUE, value |-> None]

\* One turn of `for line in reader.lines()`: line.ok()?, iter.nth(0), the
\* comparison, iter.nth(5)?.  [return, value]: whether get_shell returns.
ScanLine(l, name) ==
    LET line == ReadLine(l) IN
    IF line.kind = "Err" THEN [return |-> TRUE, value |-> None]
    ELSE LET fields == Split(line.val, ":") IN
         IF UserMatches(fields[1], name)
         THEN [return |-> TRUE,
               value |-> IF Len(fields) >= 7 THEN Some(fields[7]) ELSE None]
         ELSE [return |-> FALSE, value |-> None]

\* str::split_whitespace
SplitWhitespace(str) ==
    SelectSeq(Split([i \in 1..Len(str) |-> IF str[i] = "nl" THEN " " ELSE str[i]], " "),
              LAMBDA tok : tok # <<>>)

\* "UserShell:" is written as the one character "K".
StartsWithUserShell(str) == Len(str) >= 2 /\ str[1] = "K" /\ str[2] = " "

\* The macOS block, from the Command's Output: what get_shell returns.
ShellFromDscl(out) ==
    IF ~out.spawned THEN None
    ELSE IF ~out.success THEN None
    ELSE IF ~out.utf8 THEN None
    ELSE IF StartsWithUserShell(out.stdout)
         THEN LET toks == SplitWhitespace(out.stdout) IN
              IF Len(toks) >= 2 THEN Some(toks[2]) ELSE None
         ELSE None

\* if let Ok(shell) = env::var("SHELL") { return Some(shell); }
ReadEnv ==
    /\ spc = "start"
    /\ queries' = Append(queries, "env")
    /\ LET v == EnvVar(shellEnv) IN
       IF v.kind = "Ok"
       THEN sresult' = Some(v.val) /\ spc' = "done"
       ELSE sresult' = sresult /\ spc' = "username"
    /\ UNCHANGED <<macos, shellEnv, username, passwd, lineNo, dscl,
                   pathVars, cfgVars, hostVars>>

\* let username = get_username()?;   (on either host family)
Username ==
    /\ spc = "username"
    /\ queries' = Append(queries, "getlogin_r")
    /\ \E r \in get_username(1, loginName, buf) :
          /\ username' = r.value
          /\ buf' = [buf EXCEPT ![BufOf(1, "username")] = r.buf]
          /\ IF r.value = None
             THEN sresult' = None /\ spc' = "done"
             ELSE sresult' = sresult /\ spc' = IF macos THEN "dscl" ELSE "open"
    /\ UNCHANGED <<macos, shellEnv, passwd, lineNo, dscl, pathVars, cfgVars,
                   hostName, loginName, pc, call, ret, holder, writer, hresult>>

\* A line of /etc/passwd with k fields: name:x:1:2:g:d:shell:e
PasswdLine(user, k, shell) ==
    LET fields == SubSeq(<<user, <<"x">>, <<"1">>, <<"2">>, <<"g">>, <<"d">>, shell, <<"e">>>>, 1, k)
        Glue[i \in 1..k] == IF i = 1 THEN fields[1] ELSE Glue[i - 1] \o <<":">> \o fields[i]
    IN  Glue[k]

Users       == {<<"b">>, <<"b", "o">>}
Shells      == {<<"s">>, <<"z">>}
FieldCounts == {2, 7, 8}
BadLine     == <<BadByte>>
PasswdLines ==
    {PasswdLine(u, k, sh) : u \in Users, k \in FieldCounts, sh \in Shells} \cup {BadLine}
PasswdFiles == UNION {[1..n -> PasswdLines] : n \in 0..MaxLines}

\* let file = File::open("/etc/passwd").ok()?;
OpenPasswd ==
    /\ spc = "open"
    /\ queries' = Append(queries, "passwd")
    /\ \/ /\ passwd' = None                 \* the file cannot be opened
          /\ sresult' = None /\ spc' = "done"
          /\ UNCHANGED lineNo
       \/ /\ \E f \in PasswdFiles : passwd' = Some(f)
          /\ lineNo' = 1
          /\ spc' = "scan"
          /\ UNCHANGED sresult
    /\ UNCHANGED <<macos, shellEnv, username, dscl, pathVars, cfgVars, hostVars>>

\* for line in reader.lines() { ... }  and, past the last line, the None
\* that ends the function.
Scan ==
    /\ spc = "scan"
    /\ IF lineNo > Len(passwd.val)
       THEN sresult' = None /\ spc' = "done" /\ UNCHANGED lineNo
       ELSE LET step == ScanLine(passwd.val[lineNo], Expand(username.val)) IN
            IF step.return
            THEN sresult' = step.value /\ spc' = "done" /\ UNCHANGED lineNo
            ELSE lineNo' = lineNo + 1 /\ UNCHANGED <<sresult, spc>>
    /\ UNCHANGED <<macos, shellEnv, username, passwd, dscl, queries,
                   pathVars, cfgVars, hostVars>>

DsclStdouts ==
    {<<"K", " ", "s", "nl">>, <<"K", " ", "z", " ", "s", "nl">>, <<"K", " ", "nl">>,
     <<"s", "nl">>, <<>>}
DsclOutputs ==
    {[spawned |-> FALSE, success |-> FALSE, utf8 |-> FALSE, stdout |-> <<>>],
     [spawned |-> TRUE, success |-> FALSE, utf8 |-> TRUE, stdout |-> <<"K", " ", "s", "nl">>],
     [spawned |-> TRUE, success |-> TRUE, utf8 |-> FALSE, stdout |-> <<>>]}
    \cup {[spawned |-> TRUE, success |-> TRUE, utf8 |-> TRUE, stdout |-> o] : o \in DsclStdouts}

\* Command::new("dscl")...output() and what follows, to the final None.
Dscl ==
    /\ spc = "dscl"
    /\ queries' = Append(queries, "dscl")
    /\ \E out \in DsclOutputs :
          /\ dscl' = Some(out)
          /\ sresult' = ShellFromDscl(out)
    /\ spc' = "done"
    /\ UNCHANGED <<macos, shellEnv, username, passwd, lineNo, pathVars, cfgVars, hostVars>>

(***************************************************************************)
(* Claims about get_shell (checked under SpecShell)                        *)
(***************************************************************************)
ShellDone == spc = "done"

Count(q) == Cardinality({i \in 1..Len(queries) : queries[i] = q})

\* On the raw line: the text before the first ":" (or the whole line) is u.
FirstFieldIs(l, u) ==
    /\ Len(l) >= Len(u)
    /\ SubSeq(l, 1, Len(u)) = u
    /\ Len(l) > Len(u) => l[Len(u) + 1] = ":"

Matching(lines, u) == {i \in 1..Len(lines) : FirstFieldIs(lines[i], u)}
FirstMatch(lines, u) ==
    CHOOSE i \in Matching(lines, u) : \A j \in Matching(lines, u) : i <= j
ReadableUpTo(lines, m) == \A i \in 1..m : lines[i] # BadLine

\* C4: whenever SHELL is set to a value X, get_shell returns exactly X, and
\* has consulted nothing but the environment; the environment is always the
\* first source consulted.
C4_ShellEnvVerbatim ==
    /\ queries # <<>> => queries[1] = "env"
    /\ (ShellDone /\ shellEnv.set) =>
          (sresult = Some(shellEnv.val) /\ queries = <<"env">>)

\* C5: not on macOS, with SHELL unset, a login name and /etc/passwd read up
\* to its first line whose first field is the login name: get_shell returns
\* the seventh field of that line (None if the line has none), whatever the
\* lines before it (names that only start with the login name included) and
\* after it (further lines of the same name included) hold.
C5_FirstMatchingLine ==
    (ShellDone /\ ~macos /\ ~shellEnv.set /\ username.kind = "Some" /\ passwd.kind = "Some") =>
        LET u == Expand(username.val)
            lines == passwd.val
        IN  (Matching(lines, u) # {} /\ ReadableUpTo(lines, FirstMatch(lines, u))) =>
                \E k \in FieldCounts, sh \in Shells :
                    /\ lines[FirstMatch(lines, u)] = PasswdLine(u, k, sh)
                    /\ sresult = IF k >= 7 THEN Some(sh) ELSE None

C5_Witness ==
    /\ ShellDone /\ ~macos /\ ~shellEnv.set
    /\ username = Some(Rep("b", 1))
    /\ passwd = Some(<<PasswdLine(<<"b", "o">>, 7, <<"z">>), PasswdLine(<<"b">>, 7, <<"s">>)>>)
    /\ sresult = Some(<<"s">>)

\* SHELL yields a value: it is set and valid Unicode.
EnvYields == shellEnv.set /\ \A i \in 1..Len(shellEnv.val) : shellEnv.val[i] # BadByte

OncePerCall == \A q \in {"env", "getlogin_r", "passwd", "dscl"} : Count(q) <= 1
ByHostFamily == IF macos THEN Count("passwd") = 0 ELSE Count("dscl") = 0

NoLineMatches ==
    passwd.kind = "Some" /\ Matching(passwd.val, Expand(username.val)) = {}
UnreadableBeforeMatch ==
    /\ passwd.kind = "Some"
    /\ Matching(passwd.val, Expand(username.val)) # {}
    /\ ~ReadableUpTo(passwd.val, FirstMatch(passwd.val, Expand(username.val)))
FirstMatchTooShort ==
    /\ passwd.kind = "Some"
    /\ Matching(passwd.val, Expand(username.val)) # {}
    /\ \E k \in FieldCounts, sh \in Shells :
          /\ k < 7
          /\ passwd.val[FirstMatch(passwd.val, Expand(username.val))]
                = PasswdLine(Expand(username.val), k, sh)

\* The directory service yields nothing: dscl cannot be run, fails, or
\* prints something other than "UserShell: <shell>".
DsclYieldsNothing ==
    /\ dscl.kind = "Some"
    /\ \/ ~dscl.val.spawned
       \/ ~dscl.val.success
       \/ ~dscl.val.utf8
       \/ dscl.val.stdout \notin {<<"K", " ", "s", "nl">>, <<"K", " ", "z", " ", "s", "nl">>}

\* C6 as claimed: None is returned only if every source of the host family
\* failed.  Not on macOS: SHELL yields no value and the login name is
\* unavailable, the file cannot be opened or no line matches.  On macOS:
\* SHELL yields no value and the login name is unavailable or dscl yields
\* nothing.  dscl is never run after the passwd scan (the two are exclusive
\* by host family), and no source is tried twice.
C6_NoneOnlyIfAllFailed ==
    /\ OncePerCall
    /\ ByHostFamily
    /\ (ShellDone /\ macos /\ sresult = None) =>
          (~EnvYields /\ (username = None \/ DsclYieldsNothing))
    /\ (ShellDone /\ ~macos /\ sresult = None) =>
          /\ ~EnvYields
          /\ username = None \/ passwd = None \/ NoLineMatches

\* C6 as amended: as claimed, except that not on macOS the user database
\* also yields nothing when a line cannot be read before a match is found,
\* or when the first matching line has fewer than seven fields.
C6_NoneOnlyIfSourcesFailed ==
    /\ OncePerCall
    /\ ByHostFamily
    /\ (ShellDone /\ macos /\ sresult = None) =>
          (~EnvYields /\ (username = None \/ DsclYieldsNothing))
    /\ (ShellDone /\ ~macos /\ sresult = None) =>
          /\ ~EnvYields
          /\ \/ username = None
             \/ passwd = None
             \/ NoLineMatches
             \/ UnreadableBeforeMatch
             \/ FirstMatchTooShort

C6_Witness ==
    /\ ShellDone /\ ~macos /\ sresult = None
    /\ ~shellEnv.set
    /\ username = Some(Rep("b", 1))
    /\ passwd = Some(<<PasswdLine(<<"b", "o">>, 7, <<"s">>)>>)
    /\ queries = <<"env", "getlogin_r", "passwd">>

(***************************************************************************)
(* Specifications                                                          *)
(***************************************************************************)
PathChars  == {"/", "~", ".", "f"}
Homes      == {None, Some(<<RootDir, <<"h">>>>), Some(<<RootDir, <<"h">>, <<"u">>>>)}
Cwds       == {None, Some(<<RootDir>>), Some(<<RootDir, <<"w">>>>)}
HostNames  == {Rep("b", 1), Rep(BadByte, BufLen - 1), Rep("b", BufLen - 1), Rep("b", BufLen)}
LoginNames == {Rep("b", 1), Cat(Rep("b", 1), Rep("o", 1))}

PathIdle ==
    /\ path = <<>> /\ home = None /\ cwd = None /\ homeLookups = 0
    /\ expanded = NotSet /\ presult = NotCalled

CfgIdle ==
    /\ bsd = FALSE /\ xdgOk = FALSE /\ xdgKinds = <<>> /\ etcKind = "missing"
    /\ cresult = NotCalled

ThreadsIdle ==
    /\ pc = [t \in Threads |-> "idle"]
    /\ call = [t \in Threads |-> "none"]
    /\ ret = [t \in Threads |-> 0]
    /\ buf = [b \in Bufs |-> ZeroBuf]
    /\ holder = [b \in Bufs |-> 0]
    /\ writer = [b \in Bufs |-> 0]
    /\ hresult = [t \in Threads |-> NotCalled]

HostIdle == hostName = Rep("b", 1) /\ loginName = Rep("b", 1) /\ ThreadsIdle

ShellIdle ==
    /\ macos = FALSE /\ shellEnv = [set |-> FALSE, val |-> <<>>]
    /\ spc = "start" /\ username = NotSet /\ passwd = NotSet /\ lineNo = 0
    /\ dscl = NotSet /\ queries = <<>> /\ sresult = NotCalled

\* absolutize_path on every short path, home directory and working directory.
InitPath ==
    /\ path \in Strings(PathChars, MaxLen)
    /\ home \in Homes
    /\ cwd \in Cwds
    /\ homeLookups = 0
    /\ expanded = NotSet
    /\ presult = NotCalled
    /\ CfgIdle /\ HostIdle /\ ShellIdle

SpecPath == InitPath /\ [][AbsolutizePath]_vars

\* get_config_path on every small file system.
InitConfig ==
    /\ bsd \in BOOLEAN
    /\ xdgOk \in BOOLEAN
    /\ xdgKinds \in UNION {[1..n -> Kinds] : n \in 2..(1 + MaxSharedDirs)}
    /\ etcKind \in Kinds
    /\ cresult = NotCalled
    /\ PathIdle /\ HostIdle /\ ShellIdle

SpecConfig == InitConfig /\ [][GetConfigPath]_vars

\* Threads calling get_hostname and get_username, again and again.
InitHost ==
    /\ hostName \in HostNames
    /\ loginName \in LoginNames
    /\ ThreadsIdle
    /\ PathIdle /\ CfgIdle /\ ShellIdle

NextHost ==
    \E t \in Threads :
        \/ \E w \in Which : Borrow(t, w)
        \/ Native(t)
        \/ ReturnNone(t)
        \/ ReturnSome(t)

SpecHost == InitHost /\ [][NextHost]_vars

\* get_shell on either host family, for every SHELL and login name.
ShellEnvs ==
    {[set |-> FALSE, val |-> <<>>]}
    \cup {[set |-> TRUE, val |-> v] : v \in {<<>>, <<"s">>, <<"/", "z">>, <<BadByte>>}}

InitShell ==
    /\ macos \in BOOLEAN
    /\ shellEnv \in ShellEnvs
    /\ hostName = Rep("b", 1)
    /\ loginName \in LoginNames
    /\ ThreadsIdle
    /\ spc = "start" /\ username = NotSet /\ passwd = NotSet /\ lineNo = 0
    /\ dscl = NotSet /\ queries = <<>> /\ sresult = NotCalled
    /\ PathIdle /\ CfgIdle

NextShell == ReadEnv \/ Username \/ OpenPasswd \/ Scan \/ Dscl

SpecShell == InitShell /\ [][NextShell]_vars

====
